---- MODULE Spec2Model ----
(***************************************************************************)
(* Cluster member indexer of Create_Cluster_Member_Lists.ipynb.            *)
(*                                                                         *)
(* The notebook loads a cluster catalog and a member catalog, builds       *)
(* dict_props_ID (cluster key -> ID), scans the member catalog to build    *)
(* dict_ID_slice (ID -> row range) and then writes one member list per     *)
(* requested cluster ID with save_mem_list.                                *)
(*                                                                         *)
(* Redshifts are integers in units of 1e-4, so that np.round(z, 3) is a    *)
(* real rounding (to a multiple of 10) and 0.001 is 10.  Probabilities     *)
(* are integers in units of 1e-2.  A Python dict is a sequence of          *)
(* <<key, value>> pairs in insertion order; a slice(a, b) is <<a, b>>.     *)
(* np.savetxt is taken to succeed (the output directory exists).           *)
(***************************************************************************)
EXTENDS Integers, Sequences, FiniteSets, TLC

VARIABLES
    \* Create_Cluster_Member_Lists.ipynb
    HSC_cl_cat,       \* cluster catalog rows [RA, dec, z]
    HSC_cl_cat_IDs,   \* cluster IDs, same length as HSC_cl_cat
    full_member_cat,  \* member catalog rows
    pc,               \* position in the notebook
    dict_props_ID,    \* identity map, (RA, dec, z) -> ID
    i,                \* loop index of the index builder (0-based)
    low_ind,          \* start of the current run
    high_ind,         \* end of the last closed run
    list_ID_slice,    \* (ID, slice) pairs in order of appearance
    dict_ID_slice,    \* the membership index, ID -> slice
    files,            \* output artifacts, path -> content
    last_call,        \* outcome of the latest save_mem_list call
    procs,            \* save_mem_list calls in progress (interleaved runs)
    misc_IDs,         \* the IDs of the batch loop
    batch_pos,        \* how many IDs of misc_IDs the loop has gone through
    \* the physical separation notebook
    cosmo,            \* comoving distance (Mpc) at each redshift of the grid
    z1,               \* first argument of LOS_distance_diff, in 1e-2
    z2,               \* second argument of LOS_distance_diff, in 1e-2
    los_result,       \* <<>> before the call, <<returned value>> after
    \* HSC_ACT_Offset_Distribution.ipynb
    cm_catalog,       \* cross-match rows [cause, offset], offsets in kpc
    fit_pc,           \* position in the notebook
    exclude_from_distro,     \* one flag per row
    offsets,                 \* the fitted sample
    f_best,                  \* fitted f_cen, in units of 1 / PctScale
    well_centered_cutoff,    \* <<>>, or <<the percentile cutoff times PctScale>>
    is_well_centered,        \* one flag per offset of the sample
    between_cutoffs_cleaned, \* mask of the rows shown by cell d524c8ba
    is_miscentered_cleaned   \* mask of cell 9a31d7b5

\* The state of Create_Cluster_Member_Lists.ipynb up to save_mem_list.
idxvars == <<HSC_cl_cat, HSC_cl_cat_IDs, full_member_cat, pc, dict_props_ID,
             i, low_ind, high_ind, list_ID_slice, dict_ID_slice, files,
             last_call, procs>>

\* The state of its batch loop.
batchvars == <<misc_IDs, batch_pos>>

\* The state of the physical separation notebook.
sepvars == <<cosmo, z1, z2, los_result>>

\* The state of HSC_ACT_Offset_Distribution.ipynb.
fitvars == <<cm_catalog, fit_pc, exclude_from_distro, offsets, f_best,
             well_centered_cutoff, is_well_centered, between_cutoffs_cleaned,
             is_miscentered_cleaned>>

vars == <<idxvars, batchvars, sepvars, fitvars>>

\* The batch loop has not been entered.
BatchIdle == misc_IDs = <<>> /\ batch_pos = 0

\* The physical separation notebook is not run.
SepIdle == cosmo = <<>> /\ z1 = 0 /\ z2 = 0 /\ los_result = <<>>

\* HSC_ACT_Offset_Distribution.ipynb is not run.
FitIdle ==
    /\ cm_catalog = <<>>
    /\ fit_pc = "idle"
    /\ exclude_from_distro = <<>>
    /\ offsets = <<>>
    /\ f_best = 0
    /\ well_centered_cutoff = <<>>
    /\ is_well_centered = <<>>
    /\ between_cutoffs_cleaned = <<>>
    /\ is_miscentered_cleaned = <<>>

(***************************************************************************)
(* Bounds of the model.                                                    *)
(***************************************************************************)
MaxClusters == 2
MaxMembers == 2
MaxProbRows == 4
MaxParRows == 2

(***************************************************************************)
(* Input values.                                                           *)
(***************************************************************************)
\* IDs of the cluster catalog, by row.
IDNames == <<"C19a1sW00001", "C19a1sW00002", "C19a1sW00003", "C19a1sW00004">>

\* An ID no cluster catalog row carries.
UnknownID == "C19a1sW99999"

\* Cluster catalog rows: source-precision redshifts 0.0996, 0.1004 (both
\* round to 0.100), 0.1012 (0.101) and 0.1020 (0.102).
ClusterRows ==
    { [RA |-> 1, dec |-> 1, z |-> zz] : zz \in {996, 1004, 1012, 1020} }
    \cup { [RA |-> c[1], dec |-> c[2], z |-> zz] :
              c \in {<<1, 2>>, <<2, 1>>}, zz \in {1004, 1012} }

\* Parent-cluster columns of a member row: redshifts 0.100 and 0.101.
ParentProps == {<<1, 1, 1000>>, <<1, 2, 1000>>, <<1, 1, 1010>>, <<2, 1, 1000>>}

\* Membership probabilities 0.05, 0.1, 0.5 and 1.0.
ProbVals == <<5, 10, 50, 100>>

\* Row k (1-based) of a member catalog: columns 0, 1, 3 (parent cluster),
\* 4, 5 (galaxy coordinates) and 7 (membership probability).
MemberRow(k, props, p) ==
    [cl_RA |-> props[1], cl_dec |-> props[2], cl_z |-> props[3],
     gal_RA |-> 100 + k, gal_dec |-> 200 + k, prob |-> p]

SeqsUpTo(S, n) == UNION { [1..m -> S] : m \in 0..n }

\* Member catalogs with varied parent columns; probabilities cycle
\* through ProbVals.
KeyCatalogs ==
    { [k \in 1..Len(ps) |-> MemberRow(k, ps[k], ProbVals[((k - 1) % 4) + 1])] :
        ps \in SeqsUpTo(ParentProps, MaxMembers) }

\* Member catalogs with varied probabilities: rows of one cluster with any
\* probability, rows of a second cluster with probability 0.5.
ProbCatalogs ==
    { [k \in 1..Len(rs) |-> MemberRow(k, rs[k][1], rs[k][2])] :
        rs \in SeqsUpTo(({<<1, 1, 1000>>} \X {ProbVals[n] : n \in 1..4})
                          \cup {<<<<2, 1, 1000>>, 50>>}, MaxProbRows) }

\* The cluster catalog of the probability catalogs.
TwoClusters == <<[RA |-> 1, dec |-> 1, z |-> 1004], [RA |-> 2, dec |-> 1, z |-> 1004]>>

(***************************************************************************)
(* Library functions the notebook calls.                                   *)
(***************************************************************************)
\* np.round(x, 3) of a value in units of 1e-4: round half to even.
np_round(x) ==
    LET q == x \div 10
        r == x % 10
    IN  IF r < 5 THEN 10 * q
        ELSE IF r > 5 THEN 10 * (q + 1)
        ELSE IF q % 2 = 0 THEN 10 * q ELSE 10 * (q + 1)

\* key in d
DictHas(d, k) == \E n \in 1..Len(d) : d[n][1] = k

\* d[key]; only used when the key is present
DictGet(d, k) == d[CHOOSE n \in 1..Len(d) : d[n][1] = k][2]

\* DictSet without the overwrite: the pair is always appended.
DictSetAppends(d, k, v) == Append(d, <<k, v>>)

\* DictSet keeping the first value of a key.
DictSetFirstWins(d, k, v) ==
    IF DictHas(d, k) THEN d ELSE Append(d, <<k, v>>)

\* d[key] = value: an existing key keeps its place and takes the new value
DictSet(d, k, v) ==
    IF DictHas(d, k)
    THEN [n \in 1..Len(d) |-> IF d[n][1] = k THEN <<k, v>> ELSE d[n]]
    ELSE Append(d, <<k, v>>)

\* dict(list_of_pairs)
RECURSIVE dict(_)
dict(list) ==
    IF list = <<>> THEN <<>>
    ELSE LET n == Len(list)
         IN  DictSet(dict(SubSeq(list, 1, n - 1)), list[n][1], list[n][2])

DictKeys(d) == {d[n][1] : n \in 1..Len(d)}

(***************************************************************************)
(* Initial state: the catalogs are loaded, nothing is built.               *)
(***************************************************************************)
Init ==
    /\ \/ /\ HSC_cl_cat \in SeqsUpTo(ClusterRows, MaxClusters)
          /\ full_member_cat \in KeyCatalogs
       \/ /\ HSC_cl_cat = TwoClusters
          /\ full_member_cat \in ProbCatalogs
    /\ HSC_cl_cat_IDs = SubSeq(IDNames, 1, Len(HSC_cl_cat))
    /\ pc = "cell3"
    /\ dict_props_ID = <<>>
    /\ i = 0
    /\ low_ind = 0
    /\ high_ind = 0
    /\ list_ID_slice = <<>>
    /\ dict_ID_slice = <<>>
    /\ files = <<>>
    /\ last_call = <<UnknownID, "none">>
    /\ procs = <<>>
    /\ BatchIdle
    /\ SepIdle
    /\ FitIdle

(***************************************************************************)
(* Cell e7c1967b: dict_props_ID.                                           *)
(***************************************************************************)
list_props_ID ==
    [n \in 1..Len(HSC_cl_cat) |->
        <<<<HSC_cl_cat[n].RA, HSC_cl_cat[n].dec, np_round(HSC_cl_cat[n].z)>>,
          HSC_cl_cat_IDs[n]>>]

BuildPropsID ==
    /\ pc = "cell3"
    /\ dict_props_ID' = dict(list_props_ID)
    /\ pc' = "cell4"
    /\ UNCHANGED <<HSC_cl_cat, HSC_cl_cat_IDs, full_member_cat, i, low_ind,
                   high_ind, list_ID_slice, dict_ID_slice, files, last_call,
                   procs>>
    /\ UNCHANGED <<batchvars, sepvars, fitvars>>

(***************************************************************************)
(* Cell 02a19c9a: dict_ID_slice.  One action per loop iteration.           *)
(***************************************************************************)
\* Row n (0-based) of the member catalog.
Row(n) == full_member_cat[n + 1]

\* SameRunAsNext comparing the parent declination as well.
SameRunAsNextWithDec(n) ==
    /\ n < Len(full_member_cat) - 1
    /\ Row(n).cl_RA = Row(n + 1).cl_RA
    /\ Row(n).cl_dec = Row(n + 1).cl_dec
    /\ Row(n).cl_z = Row(n + 1).cl_z

\* SameRunAsNext comparing the parent RA alone.
SameRunAsNextRAOnly(n) ==
    /\ n < Len(full_member_cat) - 1
    /\ Row(n).cl_RA = Row(n + 1).cl_RA

\* The test that makes the loop `continue`: row n is not the last row and
\* the next row has the same parent RA and the same parent redshift.
SameRunAsNext(n) ==
    /\ n < Len(full_member_cat) - 1
    /\ Row(n).cl_RA = Row(n + 1).cl_RA
    /\ Row(n).cl_z = Row(n + 1).cl_z

\* CandidateKeys with the second nudge repeating the first.
CandidateKeysPlusTwice(n) ==
    << <<Row(n).cl_RA, Row(n).cl_dec, Row(n).cl_z>>,
       <<Row(n).cl_RA, Row(n).cl_dec, np_round(Row(n).cl_z + 10)>>,
       <<Row(n).cl_RA, Row(n).cl_dec, np_round(Row(n).cl_z + 10)>> >>

\* The keys the nested try/except tries, in order.
CandidateKeys(n) ==
    << <<Row(n).cl_RA, Row(n).cl_dec, Row(n).cl_z>>,
       <<Row(n).cl_RA, Row(n).cl_dec, np_round(Row(n).cl_z + 10)>>,
       <<Row(n).cl_RA, Row(n).cl_dec, np_round(Row(n).cl_z - 10)>> >>

\* Whether the innermost lookup succeeds.
Resolvable(n) == \E c \in 1..3 : DictHas(dict_props_ID, CandidateKeys(n)[c])

\* ResolvedKey trying the -0.001 key before the +0.001 key.
ResolvedKeyMinusFirst(n) ==
    IF DictHas(dict_props_ID, CandidateKeys(n)[1]) THEN CandidateKeys(n)[1]
    ELSE IF DictHas(dict_props_ID, CandidateKeys(n)[3]) THEN CandidateKeys(n)[3]
    ELSE CandidateKeys(n)[2]

\* The key the nested try/except ends up reading.
ResolvedKey(n) ==
    IF DictHas(dict_props_ID, CandidateKeys(n)[1]) THEN CandidateKeys(n)[1]
    ELSE IF DictHas(dict_props_ID, CandidateKeys(n)[2]) THEN CandidateKeys(n)[2]
    ELSE CandidateKeys(n)[3]

ResolvedID(n) == DictGet(dict_props_ID, ResolvedKey(n))

ScanContinue ==
    /\ pc = "cell4"
    /\ i < Len(full_member_cat)
    /\ SameRunAsNext(i)
    /\ i' = i + 1
    /\ UNCHANGED <<HSC_cl_cat, HSC_cl_cat_IDs, full_member_cat, pc,
                   dict_props_ID, low_ind, high_ind, list_ID_slice,
                   dict_ID_slice, files, last_call, procs>>
    /\ UNCHANGED <<batchvars, sepvars, fitvars>>

\* ScanCloseRun that forgets to move low_ind.
ScanCloseRunKeepsLow ==
    /\ pc = "cell4"
    /\ i < Len(full_member_cat)
    /\ ~SameRunAsNext(i)
    /\ Resolvable(i)
    /\ high_ind' = i + 1
    /\ list_ID_slice' = Append(list_ID_slice, <<ResolvedID(i), <<low_ind, i + 1>>>>)
    /\ i' = i + 1
    /\ UNCHANGED <<HSC_cl_cat, HSC_cl_cat_IDs, full_member_cat, pc,
                   dict_props_ID, low_ind, dict_ID_slice, files, last_call,
                   procs>>
    /\ UNCHANGED <<batchvars, sepvars, fitvars>>

ScanCloseRun ==
    /\ pc = "cell4"
    /\ i < Len(full_member_cat)
    /\ ~SameRunAsNext(i)
    /\ Resolvable(i)
    /\ high_ind' = i + 1
    /\ list_ID_slice' = Append(list_ID_slice, <<ResolvedID(i), <<low_ind, i + 1>>>>)
    /\ low_ind' = i + 1
    /\ i' = i + 1
    /\ UNCHANGED <<HSC_cl_cat, HSC_cl_cat_IDs, full_member_cat, pc,
                   dict_props_ID, dict_ID_slice, files, last_call, procs>>
    /\ UNCHANGED <<batchvars, sepvars, fitvars>>

\* ScanKeyError swallowing the error: the run is skipped and the scan goes on.
ScanSkipsUnresolved ==
    /\ pc = "cell4"
    /\ i < Len(full_member_cat)
    /\ ~SameRunAsNext(i)
    /\ ~Resolvable(i)
    /\ low_ind' = i + 1
    /\ i' = i + 1
    /\ UNCHANGED <<HSC_cl_cat, HSC_cl_cat_IDs, full_member_cat, pc,
                   dict_props_ID, high_ind, list_ID_slice, dict_ID_slice,
                   files, last_call, procs>>
    /\ UNCHANGED <<batchvars, sepvars, fitvars>>

\* The innermost lookup raises KeyError: the cell stops where it is.
ScanKeyError ==
    /\ pc = "cell4"
    /\ i < Len(full_member_cat)
    /\ ~SameRunAsNext(i)
    /\ ~Resolvable(i)
    /\ pc' = "KeyError"
    /\ UNCHANGED <<HSC_cl_cat, HSC_cl_cat_IDs, full_member_cat,
                   dict_props_ID, i, low_ind, high_ind, list_ID_slice,
                   dict_ID_slice, files, last_call, procs>>
    /\ UNCHANGED <<batchvars, sepvars, fitvars>>

\* After the loop: dict_ID_slice = dict(list_ID_slice).
ScanFinish ==
    /\ pc = "cell4"
    /\ i = Len(full_member_cat)
    /\ dict_ID_slice' = dict(list_ID_slice)
    /\ pc' = "ready"
    /\ UNCHANGED <<HSC_cl_cat, HSC_cl_cat_IDs, full_member_cat,
                   dict_props_ID, i, low_ind, high_ind, list_ID_slice,
                   files, last_call, procs>>
    /\ UNCHANGED <<batchvars, sepvars, fitvars>>

(***************************************************************************)
(* Cell acf3aa18: save_mem_list(ID).                                       *)
(***************************************************************************)
prob_min == 10
prob_max == 100

\* Path that leaves the ID out.
PathWithoutID(ID) ==
    <<"Miscentered_Clusters_blank/", "_P=", prob_min, "to", prob_max, ".csv">>

\* 'Miscentered_Clusters_blank/' + ID + '/' + ID + '_P=' + str(prob_min)
\*   + 'to' + str(prob_max) + '.csv', as the sequence of its pieces.
Path(ID) ==
    <<"Miscentered_Clusters_blank/", ID, "/", ID, "_P=", prob_min, "to",
      prob_max, ".csv">>

\* full_member_cat[member_slice]
SliceRows(member_slice) ==
    SubSeq(full_member_cat, member_slice[1] + 1, member_slice[2])

\* in_prob_range with the lower bound included.
in_prob_range_closed(row) == row.prob >= prob_min /\ row.prob <= prob_max

\* (mem_list_no_cut[:,7] > prob_min) & (mem_list_no_cut[:,7] <= prob_max)
in_prob_range(row) == row.prob > prob_min /\ row.prob <= prob_max

\* mem_list_no_cut[in_prob_range][:, 4:6]
RECURSIVE MemList(_)
MemList(mem_list_no_cut) ==
    IF mem_list_no_cut = <<>> THEN <<>>
    ELSE LET row == Head(mem_list_no_cut)
             rest == MemList(Tail(mem_list_no_cut))
         IN  IF in_prob_range(row)
             THEN <<<<row.gal_RA, row.gal_dec>>>> \o rest
             ELSE rest

\* What np.savetxt(..., delimiter=',', header='ra, dec') writes.
Artifact(mem_list) == [header |-> "ra, dec", rows |-> mem_list]

\* savetxt that leaves only the new artifact behind.
savetxtAlone(fs, path, mem_list) ==
    [f \in {path} |-> Artifact(mem_list)]

\* The file system after np.savetxt(fname=path, X=mem_list, ...).
savetxt(fs, path, mem_list) ==
    [f \in DOMAIN fs \cup {path} |->
        IF f = path THEN Artifact(mem_list) ELSE fs[f]]

\* The IDs save_mem_list is called with.
CallIDs == {IDNames[n] : n \in 1..MaxClusters} \cup {UnknownID}

\* The file system after a whole call save_mem_list(ID) that returns.
SaveResult(fs, ID) ==
    savetxt(fs, Path(ID), MemList(SliceRows(DictGet(dict_ID_slice, ID))))

SaveMemList(ID) ==
    /\ pc = "ready"
    /\ DictHas(dict_ID_slice, ID)
    /\ files' = SaveResult(files, ID)
    /\ last_call' = <<ID, "returned">>
    /\ UNCHANGED <<HSC_cl_cat, HSC_cl_cat_IDs, full_member_cat, pc,
                   dict_props_ID, i, low_ind, high_ind, list_ID_slice,
                   dict_ID_slice, procs>>
    /\ UNCHANGED <<batchvars, sepvars, fitvars>>

\* SaveMemListKeyError with the output file opened before the lookup.
SaveMemListOpensFirst(ID) ==
    /\ pc = "ready"
    /\ ~DictHas(dict_ID_slice, ID)
    /\ files' = savetxt(files, Path(ID), <<>>)
    /\ last_call' = <<ID, "KeyError">>
    /\ UNCHANGED <<HSC_cl_cat, HSC_cl_cat_IDs, full_member_cat, pc,
                   dict_props_ID, i, low_ind, high_ind, list_ID_slice,
                   dict_ID_slice, procs>>
    /\ UNCHANGED <<batchvars, sepvars, fitvars>>

\* dict_ID_slice[ID] raises KeyError before anything is written.
SaveMemListKeyError(ID) ==
    /\ pc = "ready"
    /\ ~DictHas(dict_ID_slice, ID)
    /\ last_call' = <<ID, "KeyError">>
    /\ UNCHANGED <<HSC_cl_cat, HSC_cl_cat_IDs, full_member_cat, pc,
                   dict_props_ID, i, low_ind, high_ind, list_ID_slice,
                   dict_ID_slice, files, procs>>
    /\ UNCHANGED <<batchvars, sepvars, fitvars>>

BuildIndex ==
    \/ ScanContinue
    \/ ScanCloseRun
    \/ ScanKeyError
    \/ ScanFinish

Next ==
    \/ BuildPropsID
    \/ BuildIndex
    \/ \E ID \in CallIDs : SaveMemList(ID)
    \/ \E ID \in CallIDs : SaveMemListKeyError(ID)

Spec == Init /\ [][Next]_vars

(***************************************************************************)
(* save_mem_list calls for pairwise distinct IDs, run side by side: each   *)
(* call advances one statement group at a time, in any interleaving.       *)
(***************************************************************************)
\* Member catalogs of the interleaved runs: three parent keys, two
\* probabilities.
ParCatalogs ==
    { [k \in 1..Len(rs) |-> MemberRow(k, rs[k][1], rs[k][2])] :
        rs \in SeqsUpTo({<<1, 1, 1000>>, <<2, 1, 1000>>, <<1, 2, 1000>>}
                          \X {10, 50}, MaxParRows) }

InitPar ==
    /\ HSC_cl_cat = TwoClusters
    /\ full_member_cat \in ParCatalogs
    /\ HSC_cl_cat_IDs = SubSeq(IDNames, 1, Len(HSC_cl_cat))
    /\ pc = "cell3"
    /\ dict_props_ID = <<>>
    /\ i = 0
    /\ low_ind = 0
    /\ high_ind = 0
    /\ list_ID_slice = <<>>
    /\ dict_ID_slice = <<>>
    /\ files = <<>>
    /\ last_call = <<UnknownID, "none">>
    /\ procs = <<>>
    /\ BatchIdle
    /\ SepIdle
    /\ FitIdle

\* What a call's locals become when one of them is assigned.
Advance(ID, at, member_slice, mem_list) ==
    [procs EXCEPT ![ID] = [at |-> at, path |-> procs[ID].path,
                           member_slice |-> member_slice,
                           mem_list |-> mem_list]]

\* Lines 180-183: the call starts and computes its path.
ParCall(ID) ==
    /\ pc = "ready"
    /\ ID \notin DOMAIN procs
    /\ procs' = [q \in DOMAIN procs \cup {ID} |->
                    IF q = ID
                    THEN [at |-> "L184", path |-> Path(ID),
                          member_slice |-> <<0, 0>>, mem_list |-> <<>>]
                    ELSE procs[q]]
    /\ UNCHANGED <<HSC_cl_cat, HSC_cl_cat_IDs, full_member_cat, pc,
                   dict_props_ID, i, low_ind, high_ind, list_ID_slice,
                   dict_ID_slice, files, last_call>>
    /\ UNCHANGED <<batchvars, sepvars, fitvars>>

\* Line 184: member_slice = dict_ID_slice[ID].
ParLookup(ID) ==
    /\ ID \in DOMAIN procs
    /\ procs[ID].at = "L184"
    /\ DictHas(dict_ID_slice, ID)
    /\ procs' = Advance(ID, "L185", DictGet(dict_ID_slice, ID), <<>>)
    /\ UNCHANGED <<HSC_cl_cat, HSC_cl_cat_IDs, full_member_cat, pc,
                   dict_props_ID, i, low_ind, high_ind, list_ID_slice,
                   dict_ID_slice, files, last_call>>
    /\ UNCHANGED <<batchvars, sepvars, fitvars>>

\* Line 184 raises KeyError.
ParLookupKeyError(ID) ==
    /\ ID \in DOMAIN procs
    /\ procs[ID].at = "L184"
    /\ ~DictHas(dict_ID_slice, ID)
    /\ procs' = Advance(ID, "KeyError", <<0, 0>>, <<>>)
    /\ UNCHANGED <<HSC_cl_cat, HSC_cl_cat_IDs, full_member_cat, pc,
                   dict_props_ID, i, low_ind, high_ind, list_ID_slice,
                   dict_ID_slice, files, last_call>>
    /\ UNCHANGED <<batchvars, sepvars, fitvars>>

\* Lines 185-189: slice, mask, mem_list.
ParFilter(ID) ==
    /\ ID \in DOMAIN procs
    /\ procs[ID].at = "L185"
    /\ procs' = Advance(ID, "L191", procs[ID].member_slice,
                        MemList(SliceRows(procs[ID].member_slice)))
    /\ UNCHANGED <<HSC_cl_cat, HSC_cl_cat_IDs, full_member_cat, pc,
                   dict_props_ID, i, low_ind, high_ind, list_ID_slice,
                   dict_ID_slice, files, last_call>>
    /\ UNCHANGED <<batchvars, sepvars, fitvars>>

\* Line 191: np.savetxt, then the call returns.
ParWrite(ID) ==
    /\ ID \in DOMAIN procs
    /\ procs[ID].at = "L191"
    /\ files' = savetxt(files, procs[ID].path, procs[ID].mem_list)
    /\ procs' = Advance(ID, "returned", procs[ID].member_slice,
                        procs[ID].mem_list)
    /\ UNCHANGED <<HSC_cl_cat, HSC_cl_cat_IDs, full_member_cat, pc,
                   dict_props_ID, i, low_ind, high_ind, list_ID_slice,
                   dict_ID_slice, last_call>>
    /\ UNCHANGED <<batchvars, sepvars, fitvars>>

NextPar ==
    \/ BuildPropsID
    \/ BuildIndex
    \/ \E ID \in CallIDs : ParCall(ID)
    \/ \E ID \in CallIDs : ParLookup(ID)
    \/ \E ID \in CallIDs : ParLookupKeyError(ID)
    \/ \E ID \in CallIDs : ParFilter(ID)
    \/ \E ID \in CallIDs : ParWrite(ID)

SpecPar == InitPar /\ [][NextPar]_vars

(***************************************************************************)
(* Vocabulary of the properties.                                           *)
(***************************************************************************)
M == Len(full_member_cat)

\* Rows (0-based) at which the scan closes a run.
ClosingRows == {n \in 0..(M - 1) : ~SameRunAsNext(n)}

\* The ranges of a sequence of (ID, slice) pairs, in order.
RangesOf(pairs) == [k \in 1..Len(pairs) |-> pairs[k][2]]

\* The ranges follow each other from 0 to M: no gap, no overlap, ascending.
PartitionInOrder(ranges) ==
    /\ \A k \in 1..Len(ranges) : ranges[k][1] < ranges[k][2]
    /\ \A k \in 1..Len(ranges) :
          ranges[k][1] = (IF k = 1 THEN 0 ELSE ranges[k - 1][2])
    /\ IF ranges = <<>> THEN M = 0 ELSE ranges[Len(ranges)][2] = M

\* Every row index lies in exactly one range.
CoversOnce(ranges) ==
    \A n \in 0..(M - 1) :
        Cardinality({k \in 1..Len(ranges) :
                        ranges[k][1] <= n /\ n < ranges[k][2]}) = 1

\* The runs resolved to pairwise distinct IDs.
DistinctRunIDs ==
    \A k, l \in 1..Len(list_ID_slice) :
        list_ID_slice[k][1] = list_ID_slice[l][1] => k = l

\* The rows of each cluster key (RA, dec, z) are adjacent.
ContiguousPerCluster ==
    \A m, n \in 0..(M - 1) :
        (m < n /\ Row(m).cl_RA = Row(n).cl_RA /\ Row(m).cl_dec = Row(n).cl_dec
               /\ Row(m).cl_z = Row(n).cl_z)
        => \A l \in m..n : /\ Row(l).cl_RA = Row(m).cl_RA
                           /\ Row(l).cl_dec = Row(m).cl_dec
                           /\ Row(l).cl_z = Row(m).cl_z

\* The rows of each (RA, z) pair are adjacent.
ContiguousRuns ==
    \A m, n \in 0..(M - 1) :
        (m < n /\ Row(m).cl_RA = Row(n).cl_RA /\ Row(m).cl_z = Row(n).cl_z)
        => \A l \in m..n : /\ Row(l).cl_RA = Row(m).cl_RA
                           /\ Row(l).cl_z = Row(m).cl_z

(***************************************************************************)
(* C1.  As claimed: whenever the index builder completes, the ranges       *)
(* stored in dict_ID_slice partition [0, M) in ascending order.            *)
(***************************************************************************)
C1_IndexPartitionsCatalog ==
    pc = "ready" =>
        /\ PartitionInOrder(RangesOf(dict_ID_slice))
        /\ CoversOnce(RangesOf(dict_ID_slice))

(***************************************************************************)
(* C1, amended.  Whenever the index builder completes, the ranges it       *)
(* appended to list_ID_slice partition [0, M) in ascending order of        *)
(* appearance, every row lying in exactly one of them; the ranges stored   *)
(* in dict_ID_slice do so too when the runs resolved to pairwise distinct  *)
(* IDs, and are always among the appended ones.                            *)
(***************************************************************************)
C1_RunsPartitionCatalog ==
    pc = "ready" =>
        /\ PartitionInOrder(RangesOf(list_ID_slice))
        /\ CoversOnce(RangesOf(list_ID_slice))
        /\ \A k \in 1..Len(dict_ID_slice) :
              \E l \in 1..Len(list_ID_slice) : list_ID_slice[l] = dict_ID_slice[k]
        /\ DistinctRunIDs =>
              /\ PartitionInOrder(RangesOf(dict_ID_slice))
              /\ CoversOnce(RangesOf(dict_ID_slice))

C1_Witness ==
    /\ pc = "ready"
    /\ M = 3
    /\ Len(dict_ID_slice) = 2
    /\ DistinctRunIDs
    /\ dict_ID_slice[1][2] = <<0, 2>>
    /\ dict_ID_slice[2][2] = <<2, 3>>

(***************************************************************************)
(* C2.  As claimed: whenever the index builder completes on a member       *)
(* catalog that is contiguous per cluster, len(dict_ID_slice) equals       *)
(* len(dict_props_ID).                                                     *)
(***************************************************************************)
C2_EntryCountEqualsKeyCount ==
    (pc = "ready" /\ ContiguousPerCluster)
        => Len(dict_ID_slice) = Len(dict_props_ID)

\* The keys the closed runs were resolved by.
ResolvedKeys == {ResolvedKey(n) : n \in ClosingRows}

\* Distinct keys of the identity map carry distinct IDs.
DistinctKeyIDs ==
    \A k, l \in 1..Len(dict_props_ID) :
        dict_props_ID[k][2] = dict_props_ID[l][2] => k = l

(***************************************************************************)
(* C2, amended.  Whenever the index builder completes, len(dict_ID_slice)  *)
(* is at most len(dict_props_ID), every ID of the index being an ID of the *)
(* identity map; the two are equal when every key of the identity map is   *)
(* the key some run resolves by and distinct keys carry distinct IDs.      *)
(***************************************************************************)
C2_EntryCountAtMostKeyCount ==
    pc = "ready" =>
        /\ Len(dict_ID_slice) <= Len(dict_props_ID)
        /\ \A k \in 1..Len(dict_ID_slice) :
              \E l \in 1..Len(dict_props_ID) :
                  dict_props_ID[l][2] = dict_ID_slice[k][1]
        /\ (ResolvedKeys = DictKeys(dict_props_ID) /\ DistinctKeyIDs)
              => Len(dict_ID_slice) = Len(dict_props_ID)

C2_Witness ==
    /\ pc = "ready"
    /\ ContiguousPerCluster
    /\ ResolvedKeys = DictKeys(dict_props_ID)
    /\ Len(HSC_cl_cat) = 2
    /\ Len(dict_props_ID) = 2
    /\ Len(dict_ID_slice) = 2

KeyOfCluster(c) ==
    <<HSC_cl_cat[c].RA, HSC_cl_cat[c].dec, np_round(HSC_cl_cat[c].z)>>

\* The ID the identity map holds for the key of cluster catalog row c: the
\* row's own ID unless a later row shares its key.
IDOfCluster(c) == DictGet(dict_props_ID, KeyOfCluster(c))

\* The builder has dealt with closing row n: it appended the run's entry,
\* or it stopped at n.
RunSettled(n) == n < i \/ (n = i /\ pc = "KeyError")

\* The builder appended an entry for the run closed at row n, with this ID.
RunResolvedTo(n, ID) ==
    /\ n < i
    /\ \E k \in 1..Len(list_ID_slice) :
          /\ list_ID_slice[k][2][2] = n + 1
          /\ list_ID_slice[k][1] = ID

\* Cluster row c has the RA and dec of the run closed at row n, and a rounded
\* redshift that is the run's stored redshift plus d.
ClusterOffBy(c, n, d) ==
    /\ HSC_cl_cat[c].RA = Row(n).cl_RA
    /\ HSC_cl_cat[c].dec = Row(n).cl_dec
    /\ np_round(HSC_cl_cat[c].z) = Row(n).cl_z + d

(***************************************************************************)
(* C4.  As claimed: every run whose stored redshift differs from its       *)
(* cluster's rounded catalog redshift by exactly +0.001 or -0.001 (same RA *)
(* and dec) is resolved to that cluster's ID (the ID the identity map holds *)
(* for that cluster's key).                                                *)
(***************************************************************************)
C4_NudgedRunResolvesToItsCluster ==
    pc \in {"cell4", "KeyError", "ready"} =>
        \A n \in ClosingRows : \A c \in 1..Len(HSC_cl_cat) :
            (RunSettled(n) /\ (ClusterOffBy(c, n, 10) \/ ClusterOffBy(c, n, -10)))
                => RunResolvedTo(n, IDOfCluster(c))

(***************************************************************************)
(* C4, amended.  A run whose stored redshift differs from its cluster's    *)
(* rounded catalog redshift by exactly 0.001 (same RA and dec) is resolved *)
(* to the ID the identity map holds for that cluster's key, provided the   *)
(* identity map has no entry for the run's own key and, when the cluster's *)
(* redshift is the lower one (found by the -0.001 nudge), none for the key *)
(* 0.001 above the run's either.                                           *)
(***************************************************************************)
C4_NudgedRunResolvesWhenUnambiguous ==
    pc \in {"cell4", "KeyError", "ready"} =>
        \A n \in ClosingRows : \A c \in 1..Len(HSC_cl_cat) :
            LET found == IDOfCluster(c)
            IN  /\ (/\ RunSettled(n)
                    /\ ClusterOffBy(c, n, 10)
                    /\ ~DictHas(dict_props_ID, CandidateKeys(n)[1]))
                      => RunResolvedTo(n, found)
                /\ (/\ RunSettled(n)
                    /\ ClusterOffBy(c, n, -10)
                    /\ ~DictHas(dict_props_ID, CandidateKeys(n)[1])
                    /\ ~DictHas(dict_props_ID, CandidateKeys(n)[2]))
                      => RunResolvedTo(n, found)

\* Both nudges have resolved a run each, to two different clusters.
C4_Witness ==
    /\ pc = "ready"
    /\ Len(list_ID_slice) = 2
    /\ list_ID_slice[1][1] # list_ID_slice[2][1]
    /\ \E c \in 1..Len(HSC_cl_cat) :
          /\ ClusterOffBy(c, 0, 10)
          /\ ~DictHas(dict_props_ID, CandidateKeys(0)[1])
          /\ RunResolvedTo(0, IDOfCluster(c))
    /\ \E c \in 1..Len(HSC_cl_cat) :
          /\ ClusterOffBy(c, 1, -10)
          /\ ~DictHas(dict_props_ID, CandidateKeys(1)[1])
          /\ ~DictHas(dict_props_ID, CandidateKeys(1)[2])
          /\ RunResolvedTo(1, IDOfCluster(c))

(***************************************************************************)
(* C5.  If the key of a closed run and both nudged keys are absent from    *)
(* the identity map, the builder stops with an error at that run: the scan *)
(* never moves past it, no entry is appended for it or after it, and       *)
(* dict_ID_slice is never produced.  The builder stops with KeyError only  *)
(* at such a run.                                                          *)
(***************************************************************************)
C5_UnresolvedRunStopsBuilder ==
    /\ pc \in {"cell4", "KeyError", "ready"} =>
          \A n \in ClosingRows :
              ~Resolvable(n) =>
                  /\ i <= n
                  /\ pc # "ready"
                  /\ dict_ID_slice = <<>>
                  /\ \A k \in 1..Len(list_ID_slice) : list_ID_slice[k][2][2] <= n
    /\ pc = "KeyError" =>
          /\ i \in ClosingRows
          /\ ~Resolvable(i)
          /\ dict_ID_slice = <<>>
          /\ files = <<>>

\* The builder has stopped at the second run, after resolving the first.
C5_Witness ==
    /\ pc = "KeyError"
    /\ i = 1
    /\ list_ID_slice # <<>>
    /\ \A c \in 1..3 : ~DictHas(dict_props_ID, CandidateKeys(i)[c])

(***************************************************************************)
(* Member list extraction.                                                 *)
(***************************************************************************)
\* The rows (0-based) of range [a, b) whose probability p satisfies
\* prob_min < p <= prob_max.
RowsInProbRange(a, b) ==
    {n \in a..(b - 1) : Row(n).prob > prob_min /\ Row(n).prob <= prob_max}

\* rows lists the galaxy coordinates of the row set S in file order.
ListsInOrder(rows, S) ==
    /\ Len(rows) = Cardinality(S)
    /\ \A n \in S :
          rows[Cardinality({m \in S : m < n}) + 1]
              = <<Row(n).gal_RA, Row(n).gal_dec>>

\* The probabilities of range [a, b), in file order.
ProbsOf(a, b) == [k \in 1..(b - a) |-> Row(a + k - 1).prob]

(***************************************************************************)
(* C6.  Every artifact written for a cluster ID holds exactly the (galaxy  *)
(* RA, galaxy dec) pairs of the rows of that cluster's range whose         *)
(* probability p satisfies prob_min < p <= prob_max, in file order, under  *)
(* the header "ra, dec"; a call for an ID of the index that returned has   *)
(* written it.  With probabilities [0.05, 0.1, 0.5, 1.0] the artifact      *)
(* holds exactly the third and fourth member.                              *)
(***************************************************************************)
C6_ArtifactIsProbabilityFilter ==
    /\ \A k \in 1..Len(dict_ID_slice) :
          LET ID == dict_ID_slice[k][1]
              a == dict_ID_slice[k][2][1]
              b == dict_ID_slice[k][2][2]
          IN  Path(ID) \in DOMAIN files =>
                  /\ files[Path(ID)].header = "ra, dec"
                  /\ ListsInOrder(files[Path(ID)].rows, RowsInProbRange(a, b))
                  /\ ProbsOf(a, b) = <<5, 10, 50, 100>> =>
                        files[Path(ID)].rows
                            = << <<Row(a + 2).gal_RA, Row(a + 2).gal_dec>>,
                                 <<Row(a + 3).gal_RA, Row(a + 3).gal_dec>> >>
    /\ last_call[2] = "returned" =>
          /\ DictHas(dict_ID_slice, last_call[1])
          /\ Path(last_call[1]) \in DOMAIN files

C6_Witness ==
    /\ pc = "ready"
    /\ last_call[2] = "returned"
    /\ \E k \in 1..Len(dict_ID_slice) :
          /\ dict_ID_slice[k][1] = last_call[1]
          /\ ProbsOf(dict_ID_slice[k][2][1], dict_ID_slice[k][2][2])
                = <<5, 10, 50, 100>>
          /\ Len(files[Path(last_call[1])].rows) = 2

(***************************************************************************)
(* C7.  A call of save_mem_list for an ID absent from dict_ID_slice raises *)
(* KeyError and leaves the set of output files and their contents as they  *)
(* were.  (Every step taken from "ready" is a save_mem_list call, for the  *)
(* ID last_call then names.)                                               *)
(***************************************************************************)
C7_UnknownIDWritesNothing ==
    [][(pc = "ready" /\ ~DictHas(dict_ID_slice, last_call'[1]))
          => (last_call'[2] = "KeyError" /\ files' = files)]_vars

\* A call for an absent ID has failed after an artifact was written.
C7_Witness ==
    /\ pc = "ready"
    /\ last_call[2] = "KeyError"
    /\ ~DictHas(dict_ID_slice, last_call[1])
    /\ files # <<>>

(***************************************************************************)
(* C8.  dict_props_ID is last-write-wins: it sends the key of every        *)
(* cluster catalog row to the ID of the latest row with that key, and it   *)
(* has exactly one entry per distinct key.                                 *)
(***************************************************************************)
C8_IdentityMapLastWriteWins ==
    pc # "cell3" =>
        /\ \A c \in 1..Len(HSC_cl_cat) :
              /\ DictHas(dict_props_ID, KeyOfCluster(c))
              /\ \E l \in c..Len(HSC_cl_cat) :
                    /\ KeyOfCluster(l) = KeyOfCluster(c)
                    /\ \A m \in (l + 1)..Len(HSC_cl_cat) :
                          KeyOfCluster(m) # KeyOfCluster(c)
                    /\ \A k \in 1..Len(dict_props_ID) :
                          dict_props_ID[k][1] = KeyOfCluster(c)
                              => dict_props_ID[k][2] = HSC_cl_cat_IDs[l]
        /\ Len(dict_props_ID)
              = Cardinality({KeyOfCluster(c) : c \in 1..Len(HSC_cl_cat)})
        /\ \A k, l \in 1..Len(dict_props_ID) :
              dict_props_ID[k][1] = dict_props_ID[l][1] => k = l

\* Two rows with different source redshifts share a key; the later one won.
C8_Witness ==
    /\ pc = "cell4"
    /\ Len(HSC_cl_cat) = 2
    /\ HSC_cl_cat[1].z # HSC_cl_cat[2].z
    /\ KeyOfCluster(1) = KeyOfCluster(2)
    /\ dict_props_ID = <<<<KeyOfCluster(1), HSC_cl_cat_IDs[2]>>>>

(***************************************************************************)
(* C9.  A call of save_mem_list, returning or failing, leaves the member   *)
(* catalog, the cluster catalog, the identity map and the index as they    *)
(* were, and changes no artifact other than the one of the ID it was       *)
(* called with.                                                            *)
(***************************************************************************)
C9_ExtractionOnlyWritesItsArtifact ==
    [][pc = "ready" =>
          /\ pc' = "ready"
          /\ full_member_cat' = full_member_cat
          /\ HSC_cl_cat' = HSC_cl_cat
          /\ HSC_cl_cat_IDs' = HSC_cl_cat_IDs
          /\ dict_props_ID' = dict_props_ID
          /\ list_ID_slice' = list_ID_slice
          /\ dict_ID_slice' = dict_ID_slice
          /\ DOMAIN files' \subseteq (DOMAIN files \cup {Path(last_call'[1])})
          /\ \A f \in DOMAIN files :
                f # Path(last_call'[1])
                    => (f \in DOMAIN files' /\ files'[f] = files[f])]_vars

\* Two artifacts exist and a later call failed.
C9_Witness ==
    /\ pc = "ready"
    /\ Cardinality(DOMAIN files) = 2
    /\ last_call[2] = "KeyError"

(***************************************************************************)
(* Interleaved extractions.                                                *)
(***************************************************************************)
\* Every started call has returned or failed.
AllCallsOver ==
    \A ID \in DOMAIN procs : procs[ID].at \in {"returned", "KeyError"}

\* The orders in which the IDs of S can be called one after the other.
OrdersOf(S) ==
    {o \in [1..Cardinality(S) -> S] :
        \A k, l \in 1..Cardinality(S) : o[k] = o[l] => k = l}

\* The file system after whole calls save_mem_list(order[1]), ...,
\* one after the other; a call for an ID absent from the index fails and
\* writes nothing.
RECURSIVE SequentialFiles(_)
SequentialFiles(order) ==
    IF order = <<>> THEN <<>>
    ELSE LET n == Len(order)
             before == SequentialFiles(SubSeq(order, 1, n - 1))
         IN  IF DictHas(dict_ID_slice, order[n])
             THEN SaveResult(before, order[n])
             ELSE before

(***************************************************************************)
(* C10.  Distinct cluster IDs give distinct output paths, and when calls   *)
(* of save_mem_list for pairwise distinct IDs, interleaved in any way,     *)
(* are all over, the output files and their contents are those of running  *)
(* the calls one after the other, in whichever order.                      *)
(***************************************************************************)
C10_InterleavingsAgreeWithSequential ==
    /\ \A ID1, ID2 \in CallIDs : Path(ID1) = Path(ID2) => ID1 = ID2
    /\ AllCallsOver =>
          \A order \in OrdersOf(DOMAIN procs) : files = SequentialFiles(order)

\* Three calls are over: two wrote their artifacts, one failed.
C10_Witness ==
    /\ AllCallsOver
    /\ Cardinality(DOMAIN procs) = 3
    /\ Cardinality({ID \in DOMAIN procs : procs[ID].at = "returned"}) = 2
    /\ Cardinality(DOMAIN files) = 2
    /\ \E f \in DOMAIN files : files[f].rows # <<>>

(***************************************************************************)
(* The physical separation notebook: LOS_distance_diff(cosmo, z1, z2).     *)
(*                                                                         *)
(* Redshifts are integers in units of 1e-2 and distances are exact         *)
(* rationals num/den in Mpc (floating-point error is left out).  The       *)
(* cosmology is the table of its comoving distances on a redshift grid.    *)
(***************************************************************************)
\* How many values each comoving distance of a cosmology ranges over.
MaxDistSteps == 3

\* The redshifts the function is called with: 0, 0.25, 1 and 3.
ZGrid == {0, 25, 100, 300}

\* Comoving-distance tables: 0 at z = 0, increasing with z.
Cosmologies ==
    { [z \in ZGrid |-> IF z = 0 THEN 0
                       ELSE IF z = 25 THEN 1000 + a
                       ELSE IF z = 100 THEN 3300 + b
                       ELSE 6400 + c] :
        a \in 0..MaxDistSteps, b \in 0..MaxDistSteps, c \in 0..MaxDistSteps }

\* cosmo.comoving_distance(z)
comoving_distance(c, z) == c[z]

\* np.round(x) of the rational num/den (den > 0): the nearest integer, a
\* tie going to the even one.
np_round0(num, den) ==
    LET fl == num \div den
        r == num % den
    IN  IF 2 * r < den THEN fl
        ELSE IF 2 * r > den THEN fl + 1
        ELSE IF fl % 2 = 0 THEN fl ELSE fl + 1

\* LOS_distance_diff dividing by 1 + z2.
LOS_distance_diff_at_z2(c, za, zb) ==
    np_round0(100 * comoving_distance(c, zb) - 100 * comoving_distance(c, za),
              100 + zb)

\* d2 = D(z2) / (1 + z1), d1 = D(z1) / (1 + z1), np.round(d2 - d1); with
\* 1 + z1 = (100 + za) / 100 both quotients have the denominator 100 + za.
LOS_distance_diff(c, za, zb) ==
    LET d2_num == 100 * comoving_distance(c, zb)
        d1_num == 100 * comoving_distance(c, za)
    IN  np_round0(d2_num - d1_num, 100 + za)

InitLOS ==
    /\ cosmo \in Cosmologies
    /\ z1 \in ZGrid
    /\ z2 \in ZGrid
    /\ los_result = <<>>
    /\ HSC_cl_cat = <<>>
    /\ HSC_cl_cat_IDs = <<>>
    /\ full_member_cat = <<>>
    /\ pc = "idle"
    /\ dict_props_ID = <<>>
    /\ i = 0
    /\ low_ind = 0
    /\ high_ind = 0
    /\ list_ID_slice = <<>>
    /\ dict_ID_slice = <<>>
    /\ files = <<>>
    /\ last_call = <<UnknownID, "none">>
    /\ procs = <<>>
    /\ BatchIdle
    /\ FitIdle

CallLOS ==
    /\ los_result = <<>>
    /\ los_result' = <<LOS_distance_diff(cosmo, z1, z2)>>
    /\ UNCHANGED <<cosmo, z1, z2>>
    /\ UNCHANGED <<idxvars, batchvars, fitvars>>

NextLOS == CallLOS

SpecLOS == InitLOS /\ [][NextLOS]_vars

MaxCatalog == 3

PctScale == 4

\* The values of the "Cause of miscentering" column in the model: two
\* reasons for exclusion, one other cause, and no cause.
Causes == {"Star", "False match", "Merger", ""}

\* The values of the "Offset (Mpc)" column in the model, in kpc.
OffsetVals == {350, 373, 400}

CatalogRow == [cause : Causes, offset : OffsetVals]

\* HSC_ACT_crossmatch.fits: any rows in any order.
Catalogs == SeqsUpTo(CatalogRow, MaxCatalog)

\* reasons_for_exclusion without 'Star'.
reasons_for_exclusion_no_star ==
    {"Artifact", "Misidentified CG", "Deblending", "False match",
     "False signal"}

reasons_for_exclusion ==
    {"Artifact", "Misidentified CG", "Deblending", "False match",
     "False signal", "Star"}

cutoff1 == 331

cutoff2 == 373

\* a[mask]: the elements of a whose flag is set, in the order of a.
RECURSIVE BoolIndex(_, _)
BoolIndex(a, mask) ==
    IF a = <<>> THEN <<>>
    ELSE IF Head(mask) THEN <<Head(a)>> \o BoolIndex(Tail(a), Tail(mask))
    ELSE BoolIndex(Tail(a), Tail(mask))

\* ~mask, element by element.
Not(mask) == [k \in 1..Len(mask) |-> ~mask[k]]

\* a & b, element by element.
And(a, b) == [k \in 1..Len(a) |-> a[k] /\ b[k]]

\* The column of offsets.
offsets_fiducial == [k \in 1..Len(cm_catalog) |-> cm_catalog[k].offset]

\* The column of causes.
cause_of_misc == [k \in 1..Len(cm_catalog) |-> cm_catalog[k].cause]

RECURSIVE InsertSorted(_, _)
InsertSorted(x, a) ==
    IF a = <<>> THEN <<x>>
    ELSE IF x <= Head(a) THEN <<x>> \o a
    ELSE <<Head(a)>> \o InsertSorted(x, Tail(a))

\* np.sort.
RECURSIVE Sorted(_)
Sorted(a) ==
    IF a = <<>> THEN <<>> ELSE InsertSorted(Head(a), Sorted(Tail(a)))

\* np.percentile(a, 100 * f / PctScale) times PctScale, for a non-empty a:
\* the sorted sample at the virtual index (n - 1) * f / PctScale,
\* interpolated linearly between the two neighbouring elements.
percentile(a, f) ==
    LET srt == Sorted(a)
        h == (Len(a) - 1) * f
        lo == h \div PctScale
        r == h % PctScale
    IN  IF r = 0 THEN PctScale * srt[lo + 1]
        ELSE PctScale * srt[lo + 1] + r * (srt[lo + 2] - srt[lo + 1])

\* The index builder and save_mem_list are not run.
IdxIdle ==
    /\ HSC_cl_cat = <<>>
    /\ HSC_cl_cat_IDs = <<>>
    /\ full_member_cat = <<>>
    /\ pc = "idle"
    /\ dict_props_ID = <<>>
    /\ i = 0
    /\ low_ind = 0
    /\ high_ind = 0
    /\ list_ID_slice = <<>>
    /\ dict_ID_slice = <<>>
    /\ files = <<>>
    /\ last_call = <<UnknownID, "none">>
    /\ procs = <<>>

\* Cell 684599c7 has read the catalog.
InitFit ==
    /\ cm_catalog \in Catalogs
    /\ fit_pc = "read"
    /\ exclude_from_distro = <<>>
    /\ offsets = <<>>
    /\ f_best = 0
    /\ well_centered_cutoff = <<>>
    /\ is_well_centered = <<>>
    /\ between_cutoffs_cleaned = <<>>
    /\ is_miscentered_cleaned = <<>>
    /\ IdxIdle
    /\ BatchIdle
    /\ SepIdle

\* Cell 777c15e0 with an exclusion set that lacks 'Star'.
FlagExclusionsNoStar ==
    /\ fit_pc = "read"
    /\ exclude_from_distro' =
           [k \in 1..Len(cm_catalog) |->
               cause_of_misc[k] \in reasons_for_exclusion_no_star]
    /\ fit_pc' = "flagged"
    /\ UNCHANGED <<cm_catalog, offsets, f_best, well_centered_cutoff,
                   is_well_centered, between_cutoffs_cleaned,
                   is_miscentered_cleaned>>
    /\ UNCHANGED <<idxvars, batchvars, sepvars>>

\* Cell 777c15e0: exclude_from_distro.
FlagExclusions ==
    /\ fit_pc = "read"
    /\ exclude_from_distro' =
           [k \in 1..Len(cm_catalog) |->
               cause_of_misc[k] \in reasons_for_exclusion]
    /\ fit_pc' = "flagged"
    /\ UNCHANGED <<cm_catalog, offsets, f_best, well_centered_cutoff,
                   is_well_centered, between_cutoffs_cleaned,
                   is_miscentered_cleaned>>
    /\ UNCHANGED <<idxvars, batchvars, sepvars>>

\* Cell 4425aca8, exclude_clusters = True: offsets_fiducial[~exclude_from_distro].
SelectOffsets ==
    /\ fit_pc = "flagged"
    /\ offsets' = BoolIndex(offsets_fiducial, Not(exclude_from_distro))
    /\ fit_pc' = "selected"
    /\ UNCHANGED <<cm_catalog, exclude_from_distro, f_best,
                   well_centered_cutoff, is_well_centered,
                   between_cutoffs_cleaned, is_miscentered_cleaned>>
    /\ UNCHANGED <<idxvars, batchvars, sepvars>>

\* Cell 9886a308, use_fixed_sig1 and not use_3comp: f_best is what the
\* minimizer returns, some value within its bounds (0., 1).
FitDistribution ==
    /\ fit_pc = "selected"
    /\ \E f \in 0..PctScale : f_best' = f
    /\ fit_pc' = "fitted"
    /\ UNCHANGED <<cm_catalog, exclude_from_distro, offsets,
                   well_centered_cutoff, is_well_centered,
                   between_cutoffs_cleaned, is_miscentered_cleaned>>
    /\ UNCHANGED <<idxvars, batchvars, sepvars>>

\* Cell c4e97d3b: well_centered_cutoff and is_well_centered.
Classify ==
    /\ fit_pc = "fitted"
    /\ offsets # <<>>
    /\ LET cut == percentile(offsets, f_best)
       IN  /\ well_centered_cutoff' = <<cut>>
           /\ is_well_centered' =
                  [k \in 1..Len(offsets) |-> PctScale * offsets[k] < cut]
    /\ fit_pc' = "classified"
    /\ UNCHANGED <<cm_catalog, exclude_from_distro, offsets, f_best,
                   between_cutoffs_cleaned, is_miscentered_cleaned>>
    /\ UNCHANGED <<idxvars, batchvars, sepvars>>

\* Cell c4e97d3b on an empty sample: there is no percentile (nan, or an
\* error, depending on the numpy version) and no offset to label.
ClassifyEmptySample ==
    /\ fit_pc = "fitted"
    /\ offsets = <<>>
    /\ fit_pc' = "classified"
    /\ UNCHANGED <<cm_catalog, exclude_from_distro, offsets, f_best,
                   well_centered_cutoff, is_well_centered,
                   between_cutoffs_cleaned, is_miscentered_cleaned>>
    /\ UNCHANGED <<idxvars, batchvars, sepvars>>

\* Cell d524c8ba: the mask of the rows it shows,
\* between_cutoffs_fiducial & ~exclude_from_distro.
BetweenCutoffs ==
    /\ fit_pc = "classified"
    /\ LET between_cutoffs_fiducial ==
               [k \in 1..Len(cm_catalog) |->
                   /\ offsets_fiducial[k] > cutoff1
                   /\ offsets_fiducial[k] < cutoff2]
       IN  between_cutoffs_cleaned' =
               And(between_cutoffs_fiducial, Not(exclude_from_distro))
    /\ fit_pc' = "between"
    /\ UNCHANGED <<cm_catalog, exclude_from_distro, offsets, f_best,
                   well_centered_cutoff, is_well_centered,
                   is_miscentered_cleaned>>
    /\ UNCHANGED <<idxvars, batchvars, sepvars>>

\* Cell 9a31d7b5: is_miscentered_cleaned.
MiscenteredCleaned ==
    /\ fit_pc = "between"
    /\ is_miscentered_cleaned' =
           And([k \in 1..Len(cm_catalog) |-> offsets_fiducial[k] > cutoff2],
               Not(exclude_from_distro))
    /\ fit_pc' = "done"
    /\ UNCHANGED <<cm_catalog, exclude_from_distro, offsets, f_best,
                   well_centered_cutoff, is_well_centered,
                   between_cutoffs_cleaned>>
    /\ UNCHANGED <<idxvars, batchvars, sepvars>>

NextFit ==
    \/ FlagExclusions
    \/ SelectOffsets
    \/ FitDistribution
    \/ Classify
    \/ ClassifyEmptySample
    \/ BetweenCutoffs
    \/ MiscenteredCleaned

SpecFit == InitFit /\ [][NextFit]_vars

\* The cell that assigns the labels has run on a non-empty sample.
Labelled == well_centered_cutoff # <<>>

(***************************************************************************)
(* C12.  As claimed: with the cutoff at the (100 * f_cen)-th percentile of *)
(* the sample, every cluster of the sample has one label, miscentered      *)
(* exactly when its offset is above the cutoff and well-centered           *)
(* otherwise, so that an offset equal to the cutoff is well-centered.      *)
(***************************************************************************)
C12_WellCenteredUnlessAboveCutoff ==
    Labelled =>
        /\ well_centered_cutoff = <<percentile(offsets, f_best)>>
        /\ Len(is_well_centered) = Len(offsets)
        /\ \A k \in 1..Len(offsets) :
               /\ is_well_centered[k] \in BOOLEAN
               /\ ~is_well_centered[k] <=>
                      PctScale * offsets[k] > well_centered_cutoff[1]

\* The rows of the catalog whose cause of miscentering is a reason for
\* exclusion, by position.
ExcludedRows ==
    { k \in 1..Len(cm_catalog) :
        cm_catalog[k].cause \in {"Artifact", "Misidentified CG", "Deblending",
                                 "False match", "False signal", "Star"} }

\* The other rows.
KeptRows == (1..Len(cm_catalog)) \ ExcludedRows

\* The j-th kept row, in catalog order.
KeptRow(j) ==
    CHOOSE k \in KeptRows : Cardinality({ m \in KeptRows : m < k }) = j - 1

(***************************************************************************)
(* C16.  With exclude_clusters enabled, the sample is the offsets of the   *)
(* rows whose cause is not a reason for exclusion, in catalog order; the   *)
(* fit and the percentile cutoff work on that sample; and no row with an   *)
(* excluded cause is in the cleaned between-cutoffs selection or in        *)
(* is_miscentered_cleaned.                                                 *)
(***************************************************************************)
C16_ExcludedRowsStayOut ==
    /\ fit_pc \in {"selected", "fitted", "classified", "between", "done"} =>
           /\ Len(offsets) = Cardinality(KeptRows)
           /\ \A j \in 1..Len(offsets) :
                  offsets[j] = cm_catalog[KeptRow(j)].offset
    /\ Labelled => well_centered_cutoff = <<percentile(offsets, f_best)>>
    /\ fit_pc \in {"between", "done"} =>
           /\ Len(between_cutoffs_cleaned) = Len(cm_catalog)
           /\ \A k \in ExcludedRows : ~between_cutoffs_cleaned[k]
    /\ fit_pc = "done" =>
           /\ Len(is_miscentered_cleaned) = Len(cm_catalog)
           /\ \A k \in ExcludedRows : ~is_miscentered_cleaned[k]

\* A star at 400 kpc is left out of the sample and of both selections,
\* which hold the merger at 350 kpc and the cluster at 400 kpc.
C16_Witness ==
    /\ fit_pc = "done"
    /\ cm_catalog = << [cause |-> "Star", offset |-> 400],
                       [cause |-> "Merger", offset |-> 350],
                       [cause |-> "", offset |-> 400] >>
    /\ offsets = <<350, 400>>
    /\ between_cutoffs_cleaned = <<FALSE, TRUE, FALSE>>
    /\ is_miscentered_cleaned = <<FALSE, FALSE, TRUE>>

(***************************************************************************)
(* The entries of list_ID_slice against the rows of the member catalog.    *)
(***************************************************************************)
\* The index builder has started.
Scanning == pc \in {"cell4", "KeyError", "ready"}

\* Row n (0-based) is the last row, or row n + 1 differs from it in parent RA
\* or in parent redshift.
RunEndsAt(n) ==
    \/ n = M - 1
    \/ full_member_cat[n + 2].cl_RA # full_member_cat[n + 1].cl_RA
    \/ full_member_cat[n + 2].cl_z # full_member_cat[n + 1].cl_z

\* An entry of list_ID_slice has its range end just after row n.
ClosedAt(n) == \E k \in 1..Len(list_ID_slice) : list_ID_slice[k][2][2] = n + 1

\* (RA, dec, z + d) of row n, re-rounded to 3 decimals when d is a nudge.
KeyAt(n, d) ==
    <<full_member_cat[n + 1].cl_RA, full_member_cat[n + 1].cl_dec,
      IF d = 0 THEN full_member_cat[n + 1].cl_z
      ELSE np_round(full_member_cat[n + 1].cl_z + d)>>

C14_FirstPresentKeyWins ==
    Scanning =>
        \A k \in 1..Len(list_ID_slice) :
            LET n == list_ID_slice[k][2][2] - 1
                ID == list_ID_slice[k][1]
                has0 == DictHas(dict_props_ID, KeyAt(n, 0))
                hasPlus == DictHas(dict_props_ID, KeyAt(n, 10))
                hasMinus == DictHas(dict_props_ID, KeyAt(n, -10))
            IN  /\ has0 => ID = DictGet(dict_props_ID, KeyAt(n, 0))
                /\ (~has0 /\ hasPlus) => ID = DictGet(dict_props_ID, KeyAt(n, 10))
                /\ (~has0 /\ ~hasPlus) =>
                       /\ hasMinus
                       /\ ID = DictGet(dict_props_ID, KeyAt(n, -10))

\* A run whose exact key is absent while both nudged keys are present, with
\* different IDs: it has the ID of the + 0.001 key.
C14_Witness ==
    /\ pc = "ready"
    /\ Len(list_ID_slice) = 1
    /\ ~DictHas(dict_props_ID, KeyAt(M - 1, 0))
    /\ DictHas(dict_props_ID, KeyAt(M - 1, 10))
    /\ DictHas(dict_props_ID, KeyAt(M - 1, -10))
    /\ DictGet(dict_props_ID, KeyAt(M - 1, 10))
           # DictGet(dict_props_ID, KeyAt(M - 1, -10))
    /\ list_ID_slice[1][1] = DictGet(dict_props_ID, KeyAt(M - 1, 10))

(***************************************************************************)
(* Cell 078f26c5: for ID in misc_IDs: save_mem_list(ID), run once the      *)
(* index is built, on an output directory without artifacts.  One action   *)
(* per iteration of the loop, which holds a whole save_mem_list call.      *)
(***************************************************************************)
MaxBatch == 3

\* Lists of requested IDs: like the notebook's, without repetition.
BatchLists ==
    { l \in SeqsUpTo(CallIDs, MaxBatch) :
        \A a, b \in 1..Len(l) : l[a] = l[b] => a = b }

InitBatch ==
    /\ HSC_cl_cat = TwoClusters
    /\ full_member_cat \in ParCatalogs
    /\ HSC_cl_cat_IDs = SubSeq(IDNames, 1, Len(HSC_cl_cat))
    /\ pc = "cell3"
    /\ dict_props_ID = <<>>
    /\ i = 0
    /\ low_ind = 0
    /\ high_ind = 0
    /\ list_ID_slice = <<>>
    /\ dict_ID_slice = <<>>
    /\ files = <<>>
    /\ last_call = <<UnknownID, "none">>
    /\ procs = <<>>
    /\ misc_IDs \in BatchLists
    /\ batch_pos = 0
    /\ SepIdle
    /\ FitIdle

\* The ID of the iteration the loop is at.
BatchID == misc_IDs[batch_pos + 1]

\* BatchKeyError swallowing the error: the loop goes on with the next ID.
BatchSkipsMissing ==
    /\ pc = "ready"
    /\ batch_pos < Len(misc_IDs)
    /\ ~DictHas(dict_ID_slice, BatchID)
    /\ last_call' = <<BatchID, "KeyError">>
    /\ batch_pos' = batch_pos + 1
    /\ UNCHANGED <<HSC_cl_cat, HSC_cl_cat_IDs, full_member_cat, pc,
                   dict_props_ID, i, low_ind, high_ind, list_ID_slice,
                   dict_ID_slice, files, procs, misc_IDs>>
    /\ UNCHANGED <<sepvars, fitvars>>

\* An iteration whose save_mem_list(ID) returns.
BatchCall ==
    /\ pc = "ready"
    /\ batch_pos < Len(misc_IDs)
    /\ DictHas(dict_ID_slice, BatchID)
    /\ files' = SaveResult(files, BatchID)
    /\ last_call' = <<BatchID, "returned">>
    /\ batch_pos' = batch_pos + 1
    /\ UNCHANGED <<HSC_cl_cat, HSC_cl_cat_IDs, full_member_cat, pc,
                   dict_props_ID, i, low_ind, high_ind, list_ID_slice,
                   dict_ID_slice, procs, misc_IDs>>
    /\ UNCHANGED <<sepvars, fitvars>>

\* An iteration whose save_mem_list(ID) raises KeyError: the cell stops.
BatchKeyError ==
    /\ pc = "ready"
    /\ batch_pos < Len(misc_IDs)
    /\ ~DictHas(dict_ID_slice, BatchID)
    /\ last_call' = <<BatchID, "KeyError">>
    /\ pc' = "batch_KeyError"
    /\ UNCHANGED <<HSC_cl_cat, HSC_cl_cat_IDs, full_member_cat,
                   dict_props_ID, i, low_ind, high_ind, list_ID_slice,
                   dict_ID_slice, files, procs, misc_IDs, batch_pos>>
    /\ UNCHANGED <<sepvars, fitvars>>

\* The list is exhausted: the cell ends.
BatchDone ==
    /\ pc = "ready"
    /\ batch_pos = Len(misc_IDs)
    /\ pc' = "batch_done"
    /\ UNCHANGED <<HSC_cl_cat, HSC_cl_cat_IDs, full_member_cat,
                   dict_props_ID, i, low_ind, high_ind, list_ID_slice,
                   dict_ID_slice, files, last_call, procs, misc_IDs,
                   batch_pos>>
    /\ UNCHANGED <<sepvars, fitvars>>

NextBatch ==
    \/ BuildPropsID
    \/ BuildIndex
    \/ BatchCall
    \/ BatchKeyError
    \/ BatchDone

\* A running cell keeps running.
SpecBatch == InitBatch /\ [][NextBatch]_vars /\ WF_vars(NextBatch)

\* The positions (1-based) of the requested IDs that are not in the index.
AbsentAt == { k \in 1..Len(misc_IDs) : ~DictHas(dict_ID_slice, misc_IDs[k]) }

\* The artifacts are those of the first n requested IDs, and no other.
ArtifactsOfFirst(n) ==
    /\ DOMAIN files = { Path(misc_IDs[k]) : k \in 1..n }
    /\ \A k \in 1..n :
           LET member_slice == DictGet(dict_ID_slice, misc_IDs[k])
           IN  ListsInOrder(files[Path(misc_IDs[k])].rows,
                            RowsInProbRange(member_slice[1], member_slice[2]))

\* What holds at every point of the batch.
BatchInOrder ==
    pc \in {"ready", "batch_KeyError", "batch_done"} =>
        /\ batch_pos <= Len(misc_IDs)
        /\ \A k \in AbsentAt : batch_pos < k
        /\ ArtifactsOfFirst(batch_pos)
        /\ pc = "batch_KeyError" => batch_pos + 1 \in AbsentAt
        /\ pc = "batch_done" => (batch_pos = Len(misc_IDs) /\ AbsentAt = {})

\* A step of the batch goes through one ID, the next of the list, or ends
\* the batch.
BatchStepsInOrder ==
    (pc = "ready" /\ pc' # "ready") \/ (pc = "ready" /\ files' # files) =>
        \/ /\ pc' = "ready"
           /\ batch_pos' = batch_pos + 1
           /\ DOMAIN files' = DOMAIN files \cup {Path(misc_IDs[batch_pos + 1])}
        \/ /\ pc' \in {"batch_KeyError", "batch_done"}
           /\ files' = files
           /\ batch_pos' = batch_pos

(***************************************************************************)
(* C15.  The batch goes through the requested IDs in list order: at every  *)
(* point the artifacts written are those of the IDs gone through, a prefix *)
(* of the list.  With a requested ID absent from the index, the batch ends *)
(* in a KeyError at the first such ID, the artifacts being those of the    *)
(* IDs before it and of no ID after it, and stays there.  With every       *)
(* requested ID in the index, the batch ends with an artifact for every    *)
(* requested ID.                                                           *)
(***************************************************************************)
C15_BatchStopsAtFirstAbsentID ==
    /\ []BatchInOrder
    /\ [][BatchStepsInOrder]_vars
    /\ (pc = "ready" /\ AbsentAt # {})
           ~> [](/\ pc = "batch_KeyError"
                 /\ \A k \in AbsentAt : batch_pos + 1 <= k
                 /\ ArtifactsOfFirst(batch_pos))
    /\ (pc = "ready" /\ AbsentAt = {})
           ~> [](pc = "batch_done" /\ ArtifactsOfFirst(Len(misc_IDs)))

\* The batch has stopped at the second of three IDs, the first and the third
\* being in the index: one artifact, that of the first.
C15_Witness ==
    /\ pc = "batch_KeyError"
    /\ Len(misc_IDs) = 3
    /\ AbsentAt = {2}
    /\ batch_pos = 1
    /\ DOMAIN files = {Path(misc_IDs[1])}
====
